---- MODULE Spec2Model ----
(***************************************************************************)
(* Elliptic-curve group arithmetic of elliptic_curves/elliptic/elliptic.py *)
(* as a state machine: a curve is constructed once, then a caller makes    *)
(* public calls (add, mul, is_on_curve, point_order, order, all_points)    *)
(* one at a time and observes what each call returns or raises.            *)
(***************************************************************************)
EXTENDS Integers, Sequences, FiniteSets, TLC

VARIABLES curve,     \* the constructed curve: kind, field order, coefficients
          pc,        \* "idle" | "returned" | "iterating"
          call,      \* the public call in progress or just finished
          res,       \* what that call returned or raised
          gen,       \* the generator object returned by all_points()
          genOut,    \* what has been yielded by that generator so far
          genCalls   \* how many times all_points() was called in a row

vars == <<curve, pc, call, res, gen, genOut, genCalls>>

(***************************************************************************)
(* Bounds of the model.                                                    *)
(***************************************************************************)
\* Prime-field curves are enumerated for every odd prime p <= MaxP.
MaxP == 7
\* Scalars given to mul are 0..MaxScalar.
MaxScalar == 8
\* all_points() is called at most MaxGenCalls times in a row.
MaxGenCalls == 2

(***************************************************************************)
(* Point entity.                                                           *)
(***************************************************************************)
\* Python's None for an absent coordinate (Optional[T]).
None == -1

Point(x, y) == [x |-> x, y |-> y]

infinity == Point(None, None)

is_infinite(P) == P.x = None /\ P.y = None

\* Point.__eq__ between two points: structural comparison of coordinates.
point_eq(P, Q) == P.x = Q.x /\ P.y = Q.y

(***************************************************************************)
(* Field collaborators.  Their code is not part of the source tree; they   *)
(* are modelled from the field capability contract.                        *)
(*   ZpField(p): integers, elements are residues modulo p.                 *)
(*   GF2PolynomialField(m): polynomials over GF(2) (an integer's bits are  *)
(*   the coefficients), elements are residues modulo the polynomial m.     *)
(***************************************************************************)
Field(cls, order) == [cls |-> cls, order |-> order]

RECURSIVE PolyAdd(_, _)
\* Polynomial addition over GF(2): bitwise exclusive or.
PolyAdd(u, v) ==
    IF u = 0 THEN v
    ELSE IF v = 0 THEN u
    ELSE ((u + v) % 2) + 2 * PolyAdd(u \div 2, v \div 2)

RECURSIVE PolyMul(_, _)
\* Polynomial multiplication over GF(2): carry-less product, not reduced.
PolyMul(u, v) ==
    IF v = 0 THEN 0
    ELSE PolyAdd(IF v % 2 = 1 THEN u ELSE 0, PolyMul(2 * u, v \div 2))

RECURSIVE PolyDeg(_)
PolyDeg(u) == IF u <= 1 THEN 0 ELSE 1 + PolyDeg(u \div 2)

RECURSIVE PolyShift(_, _)
PolyShift(u, k) == IF k = 0 THEN u ELSE PolyShift(2 * u, k - 1)

RECURSIVE PolyMod(_, _)
\* Remainder of the polynomial u modulo the polynomial m.
PolyMod(u, m) ==
    IF PolyDeg(u) < PolyDeg(m) \/ u = 0 THEN u
    ELSE PolyMod(PolyAdd(u, PolyShift(m, PolyDeg(u) - PolyDeg(m))), m)

field_zero(F) == 0

\* Canonical reduction into the field's representative range.
modulus(F, v) ==
    IF F.cls = "ZpField" THEN v % F.order ELSE PolyMod(v, F.order)

FieldElements(F) ==
    IF F.cls = "ZpField" THEN 0 .. (F.order - 1)
    ELSE 0 .. (PolyShift(1, PolyDeg(F.order)) - 1)

\* The ring's multiplication operator (the product is not reduced).
ring_mul(F, u, v) ==
    IF F.cls = "ZpField" THEN u * v ELSE PolyMul(u, v)

\* invert fails (non-invertible element) when v has no inverse.
invertible(F, v) ==
    \E i \in FieldElements(F) : modulus(F, ring_mul(F, i, v)) = 1

invert(F, v) ==
    CHOOSE i \in FieldElements(F) : modulus(F, ring_mul(F, i, v)) = 1

\* Canonicalizes a computed element before it is exposed.
normalize_element(F, v) == modulus(F, v)

(***************************************************************************)
(* Curves.  A curve owns one field instance and its coefficients.          *)
(***************************************************************************)
ZpCurve(p, a, b) ==
    [kind |-> "ZpCurve", field |-> Field("ZpField", p),
     a |-> a, b |-> b, c |-> None]

GF2CurveBase(kind, p, a, b, c) ==
    [kind |-> kind, field |-> Field("GF2PolynomialField", p),
     a |-> a, b |-> b, c |-> c]

\* What a coefficient strategy hands back: a coefficient, or a raised error.
Coef(k) == [err |-> "none", k |-> k]
CoefRaise(e) == [err |-> e, k |-> 0]

\* A division by invert(d): the inversion raises when d has no inverse.
\* modulus(num * invert(d)): the inversion raises when d has no inverse.
Quotient(F, num, d) ==
    IF ~invertible(F, d) THEN CoefRaise("NonInvertible")
    ELSE Coef(modulus(F, ring_mul(F, num, invert(F, d))))

(***************************************************************************)
(* ZpCurve: the four delegated operations.                                 *)
(***************************************************************************)
Zp_first_case_coefficient(C, P, Q) ==
    Quotient(C.field, Q.y - P.y, Q.x - P.x)

\* A sign slip in the vertical-line check: Py - Qy instead of Py + Qy.
Zp_second_case_sign_slip(C, P, Q) ==
    IF modulus(C.field, P.y - Q.y) = field_zero(C.field)
    THEN CoefRaise("InfinitePoint")
    ELSE CoefRaise("ValueError")

Zp_second_case_coefficient(C, P, Q) ==
    IF modulus(C.field, P.y + Q.y) = field_zero(C.field)
    THEN CoefRaise("InfinitePoint")
    ELSE CoefRaise("ValueError")

Zp_third_case_coefficient(C, P, Q) ==
    Quotient(C.field, 3 * P.x * P.x + C.a, 2 * P.y)

\* y3 taken relative to the second point's x instead of the first's.
Zp_additive_point_second_x(C, P, Q, k) ==
    LET x3 == modulus(C.field, k * k - P.x - Q.x)
        y3 == modulus(C.field, P.y + k * (x3 - Q.x))
    IN  Point(x3, modulus(C.field, -y3))

Zp_additive_point(C, P, Q, k) ==
    LET x3 == modulus(C.field, k * k - P.x - Q.x)
        y3 == modulus(C.field, P.y + k * (x3 - P.x))
    IN  Point(x3, modulus(C.field, -y3))

(***************************************************************************)
(* GF2NotSupersingularCurve: the four delegated operations.                *)
(***************************************************************************)
NS_first_case_coefficient(C, P, Q) ==
    Quotient(C.field, PolyAdd(P.y, Q.y), PolyAdd(P.x, Q.x))

\* The vertical-line check with the coefficient a dropped: Qy = Px + Py.
NS_second_case_without_a(C, P, Q) ==
    IF modulus(C.field, Q.y) = modulus(C.field, PolyAdd(P.x, P.y))
    THEN CoefRaise("InfinitePoint")
    ELSE CoefRaise("CalculationError")

NS_second_case_coefficient(C, P, Q) ==
    IF modulus(C.field, Q.y)
         = modulus(C.field, PolyAdd(PolyMul(C.a, P.x), P.y))
    THEN CoefRaise("InfinitePoint")
    ELSE CoefRaise("CalculationError")

NS_third_case_coefficient(C, P, Q) ==
    Quotient(C.field, PolyAdd(PolyMul(P.x, P.x), PolyMul(C.a, P.y)),
             PolyMul(C.a, P.x))

NS_additive_point(C, P, Q, k) ==
    LET x3 == modulus(C.field,
                  PolyAdd(PolyAdd(PolyAdd(PolyAdd(PolyMul(k, k),
                      PolyMul(C.a, k)), C.b), P.x), Q.x))
        y3 == modulus(C.field,
                  PolyAdd(P.y, PolyMul(k, PolyAdd(x3, P.x))))
    IN  Point(x3, modulus(C.field, PolyAdd(PolyMul(C.a, x3), y3)))

(***************************************************************************)
(* GF2SupersingularCurve: the four delegated operations.                   *)
(***************************************************************************)
SS_first_case_coefficient(C, P, Q) ==
    Quotient(C.field, PolyAdd(P.y, Q.y), PolyAdd(P.x, Q.x))

SS_second_case_coefficient(C, P, Q) ==
    IF modulus(C.field, Q.y) = modulus(C.field, PolyAdd(C.a, P.y))
    THEN CoefRaise("InfinitePoint")
    ELSE CoefRaise("CalculationError")

SS_third_case_coefficient(C, P, Q) ==
    IF modulus(C.field, C.a) = field_zero(C.field)
    THEN CoefRaise("CalculationError")
    ELSE Quotient(C.field, PolyAdd(PolyMul(P.x, P.x), C.b), C.a)

SS_additive_point(C, P, Q, k) ==
    LET x3 == modulus(C.field, PolyAdd(PolyAdd(PolyMul(k, k), P.x), Q.x))
        y3 == modulus(C.field,
                  PolyAdd(P.y, PolyMul(k, PolyAdd(x3, P.x))))
    IN  Point(x3, modulus(C.field, PolyAdd(C.a, y3)))

(***************************************************************************)
(* Polymorphic dispatch of the four abstract methods.                      *)
(***************************************************************************)
first_case_coefficient(C, P, Q) ==
    CASE C.kind = "ZpCurve" -> Zp_first_case_coefficient(C, P, Q)
      [] C.kind = "GF2NotSupersingularCurve" -> NS_first_case_coefficient(C, P, Q)
      [] OTHER -> SS_first_case_coefficient(C, P, Q)

second_case_coefficient(C, P, Q) ==
    CASE C.kind = "ZpCurve" -> Zp_second_case_coefficient(C, P, Q)
      [] C.kind = "GF2NotSupersingularCurve" -> NS_second_case_coefficient(C, P, Q)
      [] OTHER -> SS_second_case_coefficient(C, P, Q)

third_case_coefficient(C, P, Q) ==
    CASE C.kind = "ZpCurve" -> Zp_third_case_coefficient(C, P, Q)
      [] C.kind = "GF2NotSupersingularCurve" -> NS_third_case_coefficient(C, P, Q)
      [] OTHER -> SS_third_case_coefficient(C, P, Q)

additive_point(C, P, Q, k) ==
    CASE C.kind = "ZpCurve" -> Zp_additive_point(C, P, Q, k)
      [] C.kind = "GF2NotSupersingularCurve" -> NS_additive_point(C, P, Q, k)
      [] OTHER -> SS_additive_point(C, P, Q, k)

(***************************************************************************)
(* Curve engine: add and mul.                                              *)
(***************************************************************************)
\* The outcome of a public call: err is "none" when the call returned.
\*   pt     the returned point (add, mul)
\*   val    the returned integer (point_order, order) or 0/1 (is_on_curve)
\*   strat  the coefficient strategy add invoked: "none", "first", ...
\*   norm   whether add normalized the result through the field
Returned(pt, strat, norm) ==
    [err |-> "none", pt |-> pt, val |-> None, strat |-> strat, norm |-> norm]

ReturnedVal(v) ==
    [err |-> "none", pt |-> infinity, val |-> v, strat |-> "none", norm |-> FALSE]

Raised(e, strat) ==
    [err |-> e, pt |-> infinity, val |-> None, strat |-> strat, norm |-> FALSE]

\* Which of the three cases add classifies (P, Q) into.
add_case(P, Q) ==
    IF P.x # Q.x THEN "first"
    ELSE IF P.x = Q.x /\ P.y # Q.y THEN "second"
    ELSE "third"

coefficient(C, P, Q) ==
    CASE add_case(P, Q) = "first" -> first_case_coefficient(C, P, Q)
      [] add_case(P, Q) = "second" -> second_case_coefficient(C, P, Q)
      [] OTHER -> third_case_coefficient(C, P, Q)

\* An add without its except clause.
add_catches_nothing(e) == FALSE

\* The except clause of add: the errors it recovers from.
add_catches(e) == e = "InfinitePoint"

\* An add whose first early return hands back the first point.
add_returns_first(C, P, Q) ==
    IF is_infinite(P) THEN Returned(P, "none", FALSE)
    ELSE IF is_infinite(Q) THEN Returned(P, "none", FALSE)
    ELSE LET s == add_case(P, Q)
             c == coefficient(C, P, Q)
         IN  IF c.err # "none"
             THEN IF add_catches(c.err) THEN Returned(infinity, s, FALSE)
                  ELSE Raised(c.err, s)
             ELSE LET k == normalize_element(C.field, c.k)
                      r == additive_point(C, P, Q, k)
                  IN  Returned(Point(normalize_element(C.field, r.x),
                                     normalize_element(C.field, r.y)), s, TRUE)

add(C, P, Q) ==
    IF is_infinite(P) THEN Returned(Q, "none", FALSE)
    ELSE IF is_infinite(Q) THEN Returned(P, "none", FALSE)
    ELSE LET s == add_case(P, Q)
             c == coefficient(C, P, Q)
         IN  IF c.err # "none"
             THEN IF add_catches(c.err) THEN Returned(infinity, s, FALSE)
                  ELSE Raised(c.err, s)
             ELSE LET k == normalize_element(C.field, c.k)
                      r == additive_point(C, P, Q, k)
                  IN  Returned(Point(normalize_element(C.field, r.x),
                                     normalize_element(C.field, r.y)), s, TRUE)

RECURSIVE mul_loop(_, _, _, _)
\* The while loop of mul, from the state (result, addend, scalar).
mul_loop(C, result, addend, scalar) ==
    IF scalar = 0 THEN Returned(result, "none", FALSE)
    ELSE LET r1 == IF scalar % 2 = 1 THEN add(C, result, addend)
                   ELSE Returned(result, "none", FALSE)
         IN  IF r1.err # "none" THEN Raised(r1.err, r1.strat)
             ELSE LET a2 == add(C, addend, addend)
                  IN  IF a2.err # "none" THEN Raised(a2.err, a2.strat)
                      ELSE mul_loop(C, r1.pt, a2.pt, scalar \div 2)

mul(C, P, n) == mul_loop(C, infinity, P, n)

(***************************************************************************)
(* ZpCurve: membership, order, enumeration.                                *)
(***************************************************************************)
is_on_curve(C, P) ==
    is_infinite(P)
    \/ modulus(C.field, P.y * P.y)
         = modulus(C.field, P.x * P.x * P.x + C.a * P.x + C.b)

order(C) == C.field.order

RECURSIVE point_order_loop(_, _, _)
\* The while loop of point_order and what follows it, from n.
point_order_loop(C, P, n) ==
    LET m == mul(C, P, n)
    IN  IF m.err # "none" THEN Raised(m.err, m.strat)
        ELSE IF ~point_eq(m.pt, infinity) /\ n <= C.field.order
             THEN point_order_loop(C, P, n + 1)
        ELSE IF n > C.field.order THEN Raised("IncorrectOrder", "none")
        ELSE ReturnedVal(n)

point_order(C, P) ==
    IF point_eq(P, infinity) THEN Raised("InfinitePoint", "none")
    ELSE IF ~is_on_curve(C, P) THEN Raised("NotOnCurve", "none")
    ELSE point_order_loop(C, P, 2)

\* The generator all_points() returns, and one next() on it.
\*   state "running": inside the for loop, pos is the next index of
\*                    product(range(order), repeat=2) to examine
\*   state "tail":    the loop is over and the identity has been yielded
\*   state "exhausted": the generator has returned (StopIteration)
NoGen == [state |-> "none", pos |-> 0]

\* An enumeration whose x starts at 1: range(1, order) for the first factor.
all_points_from_one(C) == [state |-> "running", pos |-> C.field.order]

all_points(C) == [state |-> "running", pos |-> 0]

\* The i-th pair of product(range(order), repeat=2).
product_pair(C, i) == Point(i \div C.field.order, i % C.field.order)

RECURSIVE scan_from(_, _)
\* The first index >= i whose pair is on the curve; order^2 when there is none.
scan_from(C, i) ==
    IF i >= C.field.order * C.field.order THEN i
    ELSE IF is_on_curve(C, product_pair(C, i)) THEN i
    ELSE scan_from(C, i + 1)

\* next(g): the new generator state and the yielded values (none or one).
gen_next(C, g) ==
    IF g.state = "running"
    THEN LET j == scan_from(C, g.pos)
         IN  IF j < C.field.order * C.field.order
             THEN [g |-> [state |-> "running", pos |-> j + 1],
                   out |-> <<product_pair(C, j)>>]
             ELSE [g |-> [state |-> "tail", pos |-> j],
                   out |-> <<infinity>>]
    ELSE [g |-> [state |-> "exhausted", pos |-> g.pos], out |-> <<>>]

(***************************************************************************)
(* The curves and inputs the model is run on.                              *)
(***************************************************************************)
IsPrime(p) == p > 1 /\ \A d \in 2 .. (p - 1) : p % d # 0

OddPrimes == {p \in 3 .. MaxP : IsPrime(p)}

\* y^2 = x^3 + 2x + 2 mod 17.
TextbookCurve == ZpCurve(17, 2, 2)

ZpCurves ==
    UNION {{ZpCurve(p, a, b) : a \in 0 .. (p - 1), b \in 0 .. (p - 1)} :
           p \in OddPrimes}

GF2Kinds == {"GF2NotSupersingularCurve", "GF2SupersingularCurve"}

GF2Field(m) == Field("GF2PolynomialField", m)

\* Over GF(4), modulus x^2 + x + 1: every coefficient triple.
GF4Curves ==
    {GF2CurveBase(kd, 7, a, b, c) :
        kd \in GF2Kinds,
        a \in FieldElements(GF2Field(7)),
        b \in FieldElements(GF2Field(7)),
        c \in FieldElements(GF2Field(7))}

\* Over GF(8), modulus x^3 + x + 1: every a, b in {0, 1}, c = x^2 + x.
GF8Curves ==
    {GF2CurveBase(kd, 11, a, b, c) :
        kd \in GF2Kinds,
        a \in FieldElements(GF2Field(11)),
        b \in {0, 1},
        c \in {6}}

GF2Curves == GF4Curves \cup GF8Curves

Curves == ZpCurves \cup {TextbookCurve} \cup GF2Curves

\* Every point a caller can pass: reduced coordinates, or the identity.
Points(C) ==
    {Point(x, y) : x \in FieldElements(C.field), y \in FieldElements(C.field)}
      \cup {infinity}

NoCall == [op |-> "none", P |-> infinity, Q |-> infinity, n |-> 0]

NoRes == ReturnedVal(None)

(***************************************************************************)
(* The state machine.                                                      *)
(***************************************************************************)
Init ==
    /\ curve \in Curves
    /\ pc = "idle"
    /\ call = NoCall
    /\ res = NoRes
    /\ gen = NoGen
    /\ genOut = <<>>
    /\ genCalls = 0

Finish(c, r) ==
    /\ pc' = "returned"
    /\ call' = c
    /\ res' = r
    /\ UNCHANGED <<curve, gen, genOut, genCalls>>

CallAdd ==
    /\ pc = "idle"
    /\ \E P \in Points(curve), Q \in Points(curve) :
          Finish([op |-> "add", P |-> P, Q |-> Q, n |-> 0], add(curve, P, Q))

CallMul ==
    /\ pc = "idle"
    /\ \E P \in Points(curve), n \in 0 .. MaxScalar :
          Finish([op |-> "mul", P |-> P, Q |-> infinity, n |-> n],
                 mul(curve, P, n))

CallIsOnCurve ==
    /\ pc = "idle"
    /\ curve.kind = "ZpCurve"
    /\ \E P \in Points(curve) :
          Finish([op |-> "is_on_curve", P |-> P, Q |-> infinity, n |-> 0],
                 ReturnedVal(IF is_on_curve(curve, P) THEN 1 ELSE 0))

CallPointOrder ==
    /\ pc = "idle"
    /\ curve.kind = "ZpCurve"
    /\ \E P \in Points(curve) :
          Finish([op |-> "point_order", P |-> P, Q |-> infinity, n |-> 0],
                 point_order(curve, P))

CallOrder ==
    /\ pc = "idle"
    /\ curve.kind = "ZpCurve"
    /\ Finish([op |-> "order", P |-> infinity, Q |-> infinity, n |-> 0],
              ReturnedVal(order(curve)))

\* all_points(): a fresh generator, also while an earlier one is in use.
CallAllPoints ==
    /\ pc \in {"idle", "iterating"}
    /\ curve.kind = "ZpCurve"
    /\ genCalls < MaxGenCalls
    /\ pc' = "iterating"
    /\ call' = [op |-> "all_points", P |-> infinity, Q |-> infinity, n |-> 0]
    /\ res' = NoRes
    /\ gen' = all_points(curve)
    /\ genOut' = <<>>
    /\ genCalls' = genCalls + 1
    /\ UNCHANGED curve

\* next() on the generator.
GenNext ==
    /\ pc = "iterating"
    /\ gen.state # "exhausted"
    /\ gen' = gen_next(curve, gen).g
    /\ genOut' = genOut \o gen_next(curve, gen).out
    /\ UNCHANGED <<curve, pc, call, res, genCalls>>

\* The caller takes the result and is ready for its next call; a generator
\* may be dropped at any point of the enumeration.
Return ==
    /\ pc \in {"returned", "iterating"}
    /\ pc' = "idle"
    /\ call' = NoCall
    /\ res' = NoRes
    /\ gen' = NoGen
    /\ genOut' = <<>>
    /\ genCalls' = 0
    /\ UNCHANGED curve

Next ==
    \/ CallAdd
    \/ CallMul
    \/ CallIsOnCurve
    \/ CallPointOrder
    \/ CallOrder
    \/ CallAllPoints
    \/ GenNext
    \/ Return

Spec == Init /\ [][Next]_vars

TypeOK ==
    /\ curve \in Curves
    /\ pc \in {"idle", "returned", "iterating"}
    /\ res.pt \in Points(curve)

(***************************************************************************)
(* Properties.                                                             *)
(***************************************************************************)
IsZp == curve.kind = "ZpCurve"

Finished(op) == pc = "returned" /\ call.op = op

IsFinite(P) == ~is_infinite(P)

\* C1. Closure on the prime-field curve: for points P, Q on the curve and a
\* scalar n, add(P, Q) and mul(P, n) return a point (they do not raise) and
\* the returned point is on the curve.
C1_Closure ==
    (/\ IsZp
     /\ Finished("add") \/ Finished("mul")
     /\ is_on_curve(curve, call.P)
     /\ is_on_curve(curve, call.Q))
    => (res.err = "none" /\ is_on_curve(curve, res.pt))

\* C2. Scalar identity on the prime-field curve: for P on the curve,
\* mul(P, 0) returns the identity and mul(P, 1) returns a point equal to P,
\* neither raising.
C2_ScalarIdentity ==
    (IsZp /\ Finished("mul") /\ is_on_curve(curve, call.P))
    => /\ call.n = 0 => (res.err = "none" /\ point_eq(res.pt, infinity))
       /\ call.n = 1 => (res.err = "none" /\ point_eq(res.pt, call.P))

RECURSIVE repeated_add(_, _, _)
\* The reference left fold: n copies of P summed with n - 1 calls to add.
repeated_add(C, P, n) ==
    IF n = 1 THEN Returned(P, "none", FALSE)
    ELSE LET r == repeated_add(C, P, n - 1)
         IN  IF r.err # "none" THEN r ELSE add(C, r.pt, P)

\* C3. Repeated-addition consistency on the prime-field curve: for P on
\* the curve and n >= 1, mul(P, n) equals the point the left fold of n
\* copies of P yields.
C3_RepeatedAddition ==
    (/\ IsZp
     /\ Finished("mul")
     /\ call.n >= 1
     /\ is_on_curve(curve, call.P)
     /\ repeated_add(curve, call.P, call.n).err = "none")
    => /\ res.err = "none"
       /\ point_eq(res.pt, repeated_add(curve, call.P, call.n).pt)

\* mul(P, n) returns the identity.
MulIsIdentity(C, P, n) ==
    mul(C, P, n).err = "none" /\ point_eq(mul(C, P, n).pt, infinity)

\* C4. Point order on the prime-field curve: for a non-identity P on the
\* curve, point_order(P) returns the smallest positive n with mul(P, n) the
\* identity; its only failure is the order-not-found error, raised exactly
\* when no n in 2..field_order has mul(P, n) the identity.
C4_PointOrder ==
    (/\ IsZp
     /\ Finished("point_order")
     /\ IsFinite(call.P)
     /\ is_on_curve(curve, call.P))
    => LET found == \E n \in 2 .. order(curve) :
                        MulIsIdentity(curve, call.P, n)
       IN  /\ res.err \in {"none", "IncorrectOrder"}
           /\ res.err = "IncorrectOrder" <=> ~found
           /\ res.err = "none" =>
                 /\ res.val >= 1
                 /\ MulIsIdentity(curve, call.P, res.val)
                 /\ \A k \in 1 .. (res.val - 1) :
                       ~MulIsIdentity(curve, call.P, k)

\* The case of C5: add of two finite points of the prime-field curve with
\* equal x and unequal y.
C5_Case ==
    /\ IsZp
    /\ Finished("add")
    /\ IsFinite(call.P) /\ IsFinite(call.Q)
    /\ is_on_curve(curve, call.P) /\ is_on_curve(curve, call.Q)
    /\ call.P.x = call.Q.x
    /\ call.P.y # call.Q.y

\* C5. Case-2 boundary on the prime-field curve: for finite points P, Q on
\* the curve with P.x = Q.x and P.y # Q.y, add(P, Q) returns the identity;
\* the "impossible case 2" error is not raised.
C5_Case2Zp ==
    C5_Case => (res.err = "none" /\ point_eq(res.pt, infinity))

C5_Witness ==
    C5_Case /\ res.strat = "second" /\ point_eq(res.pt, infinity)

\* y^2 + x*y = x^3 + a*x^2 + b over the binary field of C.
OnSpecNotSupersingular(C, P) ==
    modulus(C.field, PolyAdd(PolyMul(P.y, P.y), PolyMul(P.x, P.y)))
      = modulus(C.field,
            PolyAdd(PolyAdd(PolyMul(PolyMul(P.x, P.x), P.x),
                            PolyMul(C.a, PolyMul(P.x, P.x))), C.b))

\* y^2 + a*x*y = x^3 + b*x^2 + c over the binary field of C.
OnCodeNotSupersingular(C, P) ==
    modulus(C.field,
        PolyAdd(PolyMul(P.y, P.y), PolyMul(C.a, PolyMul(P.x, P.y))))
      = modulus(C.field,
            PolyAdd(PolyAdd(PolyMul(PolyMul(P.x, P.x), P.x),
                            PolyMul(C.b, PolyMul(P.x, P.x))), C.c))

\* add of two finite points with equal x and unequal y on a
\* non-supersingular binary curve.
C6_Case ==
    /\ curve.kind = "GF2NotSupersingularCurve"
    /\ Finished("add")
    /\ IsFinite(call.P) /\ IsFinite(call.Q)
    /\ call.P.x = call.Q.x
    /\ call.P.y # call.Q.y

\* C6 as stated. Case-2 boundary on the non-supersingular binary curve:
\* for finite P, Q that satisfy y^2 + x*y = x^3 + a*x^2 + b, with P.x = Q.x
\* and P.y # Q.y, add(P, Q) returns the identity and raises no error.
C6_Case2SpecEquation ==
    (/\ C6_Case
     /\ OnSpecNotSupersingular(curve, call.P)
     /\ OnSpecNotSupersingular(curve, call.Q))
    => (res.err = "none" /\ point_eq(res.pt, infinity))

\* C6 as amended. Case-2 boundary on the non-supersingular binary curve:
\* for finite P, Q that satisfy y^2 + a*x*y = x^3 + b*x^2 + c, with
\* P.x = Q.x and P.y # Q.y, add(P, Q) returns the identity and raises no
\* error.
C6_Case2CodeEquation ==
    (/\ C6_Case
     /\ OnCodeNotSupersingular(curve, call.P)
     /\ OnCodeNotSupersingular(curve, call.Q))
    => (res.err = "none" /\ point_eq(res.pt, infinity))

C6_Witness ==
    /\ C6_Case
    /\ OnCodeNotSupersingular(curve, call.P)
    /\ OnCodeNotSupersingular(curve, call.Q)
    /\ curve.a > 1
    /\ res.strat = "second"
    /\ point_eq(res.pt, infinity)

\* C7. Commutativity on the prime-field curve: for P, Q on the curve,
\* add(P, Q) and add(Q, P) both return equal points or both fail with the
\* same error kind.
C7_Commutative ==
    (/\ IsZp
     /\ Finished("add")
     /\ is_on_curve(curve, call.P)
     /\ is_on_curve(curve, call.Q))
    => /\ res.err = add(curve, call.Q, call.P).err
       /\ point_eq(res.pt, add(curve, call.Q, call.P).pt)

C7_Witness ==
    /\ IsZp
    /\ Finished("add")
    /\ IsFinite(call.P) /\ IsFinite(call.Q)
    /\ is_on_curve(curve, call.P) /\ is_on_curve(curve, call.Q)
    /\ call.P.x # call.Q.x
    /\ call.P.y # call.Q.y
    /\ res.err = "none"
    /\ IsFinite(res.pt)
    /\ point_eq(res.pt, add(curve, call.Q, call.P).pt)

\* C8. Identity law, every curve variant: add(P, infinity) and
\* add(infinity, P) return a point equal to P without invoking a coefficient
\* strategy or a normalization and without raising.
C8_Identity ==
    (Finished("add") /\ (is_infinite(call.P) \/ is_infinite(call.Q)))
    => /\ res.err = "none"
       /\ res.strat = "none"
       /\ ~res.norm
       /\ is_infinite(call.Q) => point_eq(res.pt, call.P)
       /\ is_infinite(call.P) => point_eq(res.pt, call.Q)

C8_Witness ==
    /\ Finished("add")
    /\ curve.kind = "GF2SupersingularCurve"
    /\ is_infinite(call.P)
    /\ IsFinite(call.Q)
    /\ point_eq(res.pt, call.Q)

\* The finite points of the prime-field curve C.
Solutions(C) ==
    {P \in Points(C) : IsFinite(P) /\ is_on_curve(C, P)}

Occurrences(seq, v) == Cardinality({i \in 1 .. Len(seq) : seq[i] = v})

\* C9. Enumeration: a finished all_points() has yielded every solution
\* (x, y) of the curve equation exactly once, no other finite point, and
\* the identity exactly once as the last element: solutions plus one
\* points (19 for y^2 = x^3 + 2x + 2 mod 17), the same on every call.
C9_Enumeration ==
    (pc = "iterating" /\ gen.state = "exhausted")
    => /\ \A P \in Solutions(curve) : Occurrences(genOut, P) = 1
       /\ \A i \in 1 .. Len(genOut) :
             IsFinite(genOut[i]) => genOut[i] \in Solutions(curve)
       /\ Occurrences(genOut, infinity) = 1
       /\ Len(genOut) = Cardinality(Solutions(curve)) + 1
       /\ genOut[Len(genOut)] = infinity
       /\ curve = TextbookCurve => Len(genOut) = 19

C9_Witness ==
    /\ pc = "iterating"
    /\ gen.state = "exhausted"
    /\ genCalls = MaxGenCalls
    /\ curve = TextbookCurve
    /\ Len(genOut) = 19
    /\ genOut[1] = Point(0, 6)

\* C10 as stated. InfinitePoint is internal only: no public call of the
\* prime-field curve ends by raising InfinitePoint.
C10_NeverSurfaces ==
    (IsZp /\ pc = "returned") => res.err # "InfinitePoint"

\* C10 as amended. No public call of the prime-field curve ends by raising
\* InfinitePoint except point_order on the identity point; add returns the
\* identity when its coefficient strategy raises InfinitePoint, and any
\* other error of a strategy, of add inside mul, or of mul inside
\* point_order reaches the caller.
C10_InternalSignal ==
    (IsZp /\ pc = "returned")
    => /\ res.err = "InfinitePoint" =>
             (call.op = "point_order" /\ is_infinite(call.P))
       /\ (call.op = "point_order" /\ is_infinite(call.P)) =>
             res.err = "InfinitePoint"
       /\ (call.op = "add" /\ IsFinite(call.P) /\ IsFinite(call.Q)) =>
             LET c == coefficient(curve, call.P, call.Q)
             IN  /\ c.err = "InfinitePoint" =>
                       (res.err = "none" /\ point_eq(res.pt, infinity))
                 /\ c.err \notin {"none", "InfinitePoint"} => res.err = c.err
       /\ (call.op = "mul" /\ call.n >= 1
             /\ add(curve, call.P, call.P).err # "none") =>
             res.err = add(curve, call.P, call.P).err
       /\ (call.op = "point_order" /\ IsFinite(call.P)
             /\ is_on_curve(curve, call.P)
             /\ mul(curve, call.P, 2).err # "none") =>
             res.err = mul(curve, call.P, 2).err

C10_Witness ==
    /\ IsZp
    /\ Finished("add")
    /\ IsFinite(call.P) /\ IsFinite(call.Q)
    /\ coefficient(curve, call.P, call.Q).err = "InfinitePoint"
    /\ res.err = "none"
    /\ point_eq(res.pt, infinity)

====
